---------------------------- MODULE Spec2Model ----------------------------
(***************************************************************************)
(* AlwaysOnMIDIRecorder (src/MIDIRecorder.py): the chord detector, the     *)
(* recording session and the orchestration of monitor_loop (event          *)
(* callback, idle watchdog, device presence loop, shutdown).               *)
(*                                                                         *)
(* Time.  time.monotonic() is the variable now, counted in quanta of       *)
(* UnitMicros microseconds (50 ms, the greatest common divisor of the      *)
(* chord window, the suppression grace and the idle timeout).  One call    *)
(* of a method reads the clock once: the few microseconds between two      *)
(* _now() calls inside one method are not modelled.                        *)
(***************************************************************************)
EXTENDS Integers, Sequences, FiniteSets, TLC

VARIABLES
    now,               \* time.monotonic(), in quanta
    recent_on,         \* ChordDetector.recent_on: sequence of <<time, note>>
    suppressed_until,  \* ChordDetector.suppressed_until: note -> expiry
    mid,               \* Recorder.mid is not None
    track,             \* Recorder.track (<<>> when None)
    last_event_real,   \* Recorder.last_event_real (NoTime when None)
    current_tempo,     \* Recorder.current_tempo
    filename,          \* Recorder.filename (NoFile when None)
    saved,             \* the files written so far, in order: [name, track, by]
    paused,            \* monitor_loop.paused
    stop_flag,         \* monitor_loop.stop_flag
    port,              \* current_port_obj['port'] is not None
    device,            \* the device is enumerated by mido.get_input_names()
    stroke,            \* the notes of the chord being struck that are still to come
    cb_pc,             \* position of the driver's callback thread in on_msg
    cb_msg,            \* the message on_msg is handling
    wd_pc,             \* position of the idle_watchdog thread
    main_pc,           \* position of the main thread (presence loop)
    act,               \* history (SpecDet): the message just processed and its result
    trig,              \* history: time of the last trigger of each chord
    heard,             \* history: last positive note-on of each split note
    spaced,            \* history: all positive note-ons so far >= window apart
    splits,            \* history: the times at which process returned split
    seen,              \* history: the split notes that have arrived as positive note-ons
    last_on_at,        \* history: time of the last positive note-on
    delivered,         \* history: the messages on_msg chose to record, in order
    nsessions,         \* history: number of sessions started
    nfails,            \* history: number of failed file writes
    resumed,           \* history: the pause chord has toggled back to enabled
    ngaps              \* history: number of clock advances

detector == <<recent_on, suppressed_until>>
recorder == <<mid, track, last_event_real, current_tempo, filename>>
cb       == <<cb_pc, cb_msg>>
heardlog == <<heard, spaced, splits, seen, last_on_at>>
vars     == <<now, detector, recorder, saved, paused, cb, wd_pc, main_pc,
              stop_flag, port, device, stroke,
              act, trig, delivered, heardlog, resumed, nsessions, nfails, ngaps>>

-----------------------------------------------------------------------------
(* Configuration, src/MIDIRecorder.py lines 13-29 *)

UnitMicros == 50000
UnitsPerSecond == 1000000 \div UnitMicros

IDLE_TIMEOUT_SECONDS == 60000000 \div UnitMicros
TICKS_PER_BEAT == 480
DEFAULT_TEMPO_US_PER_BEAT == 500000
TRIGGER_SPLIT_NOTES == {105, 107, 108}
TRIGGER_PAUSE_NOTES == {21, 23, 24}
CHORD_WINDOW_SECONDS == 150000 \div UnitMicros
SUPPRESS_AFTER_TRIGGER_SECONDS == 2000000 \div UnitMicros

NoTime == -1
NoFile == -1

-----------------------------------------------------------------------------
(* Bounds of the model *)

MaxTime == 6         \* SpecDet: the clock stops here
MaxRecent == 4       \* longest recent_on deque kept
MaxTrack == 4        \* longest track (two header events included)
MaxSessions == 2     \* sessions started in one run
MaxFails == 1        \* failed file writes in one run
MaxGaps == 1         \* Spec, SpecSup: clock advances in one run
MaxRecTrack == 5     \* SpecRec: longest track (two header events included)
MaxRecGaps == 2      \* SpecRec: clock advances in one run
MaxBack == 3         \* largest negative elapsed time tried, in quanta

-----------------------------------------------------------------------------
(* Messages *)

NoteOn(n, v) == [type |-> "note_on", note |-> n, velocity |-> v, tempo |-> 0]
NoteOff(n) == [type |-> "note_off", note |-> n, velocity |-> 0, tempo |-> 0]
SetTempo(t) == [type |-> "set_tempo", note |-> 0, velocity |-> 0, tempo |-> t]
NoMsg == [type |-> "none", note |-> 0, velocity |-> 0, tempo |-> 0]

\* msg.copy(time=ticks); `at` is not a field of the program's event: it
\* remembers when the event arrived, for the properties below.
Event(msg, ticks, at) ==
    [type |-> msg.type, note |-> msg.note, velocity |-> msg.velocity,
     tempo |-> msg.tempo, time |-> ticks, at |-> at]

MetaSetTempo(t) == Event(SetTempo(t), 0, NoTime)
MetaTrackName == Event([NoMsg EXCEPT !.type = "track_name"], 0, NoTime)
MetaEndOfTrack(ticks) == Event([NoMsg EXCEPT !.type = "end_of_track"], ticks, NoTime)

-----------------------------------------------------------------------------
(* ChordDetector *)

\* Variants of _clean_recent: one drops the entry that is exactly a window
\* old, one keeps entries for two windows.
RECURSIVE _clean_recent_drops_boundary(_, _)
_clean_recent_drops_boundary(r, t) ==
    IF r # <<>> /\ r[1][1] <= t - CHORD_WINDOW_SECONDS
    THEN _clean_recent_drops_boundary(Tail(r), t)
    ELSE r

RECURSIVE _clean_recent_two_windows(_, _)
_clean_recent_two_windows(r, t) ==
    IF r # <<>> /\ r[1][1] < t - 2 * CHORD_WINDOW_SECONDS
    THEN _clean_recent_two_windows(Tail(r), t)
    ELSE r

RECURSIVE _clean_recent(_, _)
_clean_recent(r, t) ==
    IF r # <<>> /\ r[1][1] < t - CHORD_WINDOW_SECONDS
    THEN _clean_recent(Tail(r), t)
    ELSE r

\* Variant of _clean_suppressed: an entry expiring now stays
_clean_suppressed_keeps_expiring(s, t) ==
    [n \in {m \in DOMAIN s : ~(s[m] < t)} |-> s[n]]

_clean_suppressed(s, t) ==
    [n \in {m \in DOMAIN s : ~(s[m] <= t)} |-> s[n]]

_arm_suppression(s, notes, t) ==
    [n \in (DOMAIN s) \cup notes |->
        IF n \in notes THEN t + SUPPRESS_AFTER_TRIGGER_SECONDS ELSE s[n]]

notes_seen(r) == {r[i][2] : i \in DOMAIN r}

\* ChordDetector.process at time t with deque r and suppression map s0:
\* the result (do_split, toggle_pause, suppress) and the new detector state.
process(msg, r, s0, t) ==
    LET s == _clean_suppressed(s0, t)
        r1 == Append(_clean_recent(r, t), <<t, msg.note>>)
    IN  IF msg.type \in {"note_on", "note_off"} /\ msg.note \in DOMAIN s
        THEN [res |-> <<FALSE, FALSE, TRUE>>, recent_on |-> r, suppressed_until |-> s]
        ELSE IF msg.type = "note_on" /\ msg.velocity > 0
        THEN IF TRIGGER_SPLIT_NOTES \subseteq notes_seen(r1)
             THEN [res |-> <<TRUE, FALSE, TRUE>>, recent_on |-> <<>>,
                   suppressed_until |-> _arm_suppression(s, TRIGGER_SPLIT_NOTES, t)]
             ELSE IF TRIGGER_PAUSE_NOTES \subseteq notes_seen(r1)
             THEN [res |-> <<FALSE, TRUE, TRUE>>, recent_on |-> <<>>,
                   suppressed_until |-> _arm_suppression(s, TRIGGER_PAUSE_NOTES, t)]
             ELSE [res |-> <<FALSE, FALSE, FALSE>>, recent_on |-> r1,
                   suppressed_until |-> s]
        ELSE [res |-> <<FALSE, FALSE, FALSE>>, recent_on |-> r, suppressed_until |-> s]

-----------------------------------------------------------------------------
(* Recorder *)

\* Variant of _seconds_to_ticks: always at the default tempo
_seconds_to_ticks_default_tempo(quanta, tempo) ==
    LET a == quanta * (UnitMicros \div 1000) * TICKS_PER_BEAT
        b == DEFAULT_TEMPO_US_PER_BEAT \div 1000
        r == (2 * a + b) \div (2 * b)
    IN  IF r < 0 THEN 0 ELSE r

\* round() of Python 3 on the quotient a / b, b > 0: to nearest, ties to even
RoundDiv(a, b) ==
    LET q == a \div b
        m == a % b
    IN  IF 2 * m < b THEN q
        ELSE IF 2 * m > b THEN q + 1
        ELSE IF q % 2 = 0 THEN q ELSE q + 1

Max0(x) == IF x < 0 THEN 0 ELSE x

\* max(0, int(round(mido.second2tick(seconds, TICKS_PER_BEAT, tempo)))), the
\* seconds given in quanta: seconds * 1e6 * TICKS_PER_BEAT / tempo.  Both
\* sides of the quotient are taken in milliseconds to stay within TLC's
\* 32-bit integers; every tempo of the model is a whole number of them.
_seconds_to_ticks(quanta, tempo) ==
    Max0(RoundDiv(quanta * (UnitMicros \div 1000) * TICKS_PER_BEAT, tempo \div 1000))

\* datetime.now().strftime("REC%Y%m%d_%H%M%S.mid"): the wall-clock second
_new_filename(t) == t \div UnitsPerSecond

Header(tempo) == <<MetaSetTempo(tempo), MetaTrackName>>


Rec == [mid |-> mid, track |-> track, last_event_real |-> last_event_real,
        current_tempo |-> current_tempo, filename |-> filename]

\* the "# Reset" assignments of _close_with_delta and force_close
Reset ==
    [mid |-> FALSE, track |-> <<>>, last_event_real |-> NoTime,
     current_tempo |-> DEFAULT_TEMPO_US_PER_BEAT, filename |-> NoFile]

start(R, t) ==
    IF R.mid THEN R
    ELSE [mid |-> TRUE, track |-> Header(R.current_tempo), last_event_real |-> t,
          current_tempo |-> R.current_tempo, filename |-> _new_filename(t)]

_append_with_delta(R, msg, t) ==
    LET delta_sec == IF R.last_event_real = NoTime THEN 0 ELSE t - R.last_event_real
    IN  [R EXCEPT !.last_event_real = t,
                  !.track = Append(@, Event(msg, _seconds_to_ticks(delta_sec, R.current_tempo), t))]

\* Variant of feed: current_tempo is updated before the event is appended
feed_tempo_first(R, msg, t) ==
    LET R0 == start(R, t)
        R1 == IF msg.type = "set_tempo" THEN [R0 EXCEPT !.current_tempo = msg.tempo] ELSE R0
    IN  _append_with_delta(R1, msg, t)

\* Variant of feed: the event that starts a session is not appended
feed_drops_first(R, msg, t) ==
    IF ~R.mid THEN start(R, t)
    ELSE LET R1 == _append_with_delta(R, msg, t)
         IN  IF msg.type = "set_tempo" THEN [R1 EXCEPT !.current_tempo = msg.tempo] ELSE R1

feed(R, msg, t) ==
    LET R1 == _append_with_delta(start(R, t), msg, t)
    IN  IF msg.type = "set_tempo" THEN [R1 EXCEPT !.current_tempo = msg.tempo] ELSE R1

time_since_last_event(R, t) ==
    IF R.last_event_real = NoTime THEN NoTime ELSE t - R.last_event_real

\* What a close call does: the recorder afterwards, the file written (a
\* sequence of at most one), and whether it raised.  ok: mid.save(tmp) and
\* os.replace succeed; when one of them raises, the statements after it
\* (the reset) are not executed.
NoClose(R) == [rec |-> R, file |-> <<>>, out |-> "noop"]

\* Variant of the write and reset: current_tempo is not reset
Finalize_keeps_tempo(R, ticks, ok) ==
    LET tr == Append(R.track, MetaEndOfTrack(ticks))
    IN  IF ok
        THEN [rec |-> [Reset EXCEPT !.current_tempo = R.current_tempo],
              file |-> <<[name |-> R.filename, track |-> tr]>>, out |-> "wrote"]
        ELSE [rec |-> [R EXCEPT !.track = tr], file |-> <<>>, out |-> "failed"]

Finalize(R, ticks, ok) ==
    LET tr == Append(R.track, MetaEndOfTrack(ticks))
    IN  IF ok
        THEN [rec |-> Reset, file |-> <<[name |-> R.filename, track |-> tr]>>, out |-> "wrote"]
        ELSE [rec |-> [R EXCEPT !.track = tr], file |-> <<>>, out |-> "failed"]

_close_with_delta(R, elapsed, ok) ==
    IF ~R.mid THEN NoClose(R)
    ELSE Finalize(R, _seconds_to_ticks(elapsed, R.current_tempo), ok)

\* Variant of stop_if_idle: closes one quantum before the timeout
stop_if_idle_early(R, idle_seconds, t, ok) ==
    IF ~R.mid \/ R.last_event_real = NoTime THEN NoClose(R)
    ELSE IF t - R.last_event_real < idle_seconds - 1 THEN NoClose(R)
    ELSE _close_with_delta(R, t - R.last_event_real, ok)

stop_if_idle(R, idle_seconds, t, ok) ==
    IF ~R.mid \/ R.last_event_real = NoTime THEN NoClose(R)
    ELSE IF t - R.last_event_real < idle_seconds THEN NoClose(R)
    ELSE _close_with_delta(R, t - R.last_event_real, ok)

\* Variant of split_now: the session is left open
split_now_leaves_open(R, t, ok) == NoClose(R)

split_now(R, t, ok) ==
    IF ~R.mid THEN NoClose(R)
    ELSE _close_with_delta(R, IF R.last_event_real = NoTime THEN 0 ELSE t - R.last_event_real, ok)

\* Variant of force_close: without the test of self.mid
force_close_unguarded(R, ok) == Finalize(R, 0, ok)

force_close(R, ok) ==
    IF ~R.mid THEN NoClose(R)
    ELSE Finalize(R, 0, ok)

SetRecorderInit ==
    /\ mid = FALSE
    /\ track = <<>>
    /\ last_event_real = NoTime
    /\ current_tempo = DEFAULT_TEMPO_US_PER_BEAT
    /\ filename = NoFile

SetRecorder(R) ==
    /\ mid' = R.mid
    /\ track' = R.track
    /\ last_event_real' = R.last_event_real
    /\ current_tempo' = R.current_tempo
    /\ filename' = R.filename

\* A close call taken as a step: c is what the call does.  `by` is not part
\* of the file: it remembers which call site wrote it.
ClosesWithin(c, by, maxlen) ==
    /\ Len(c.rec.track) <= maxlen
    /\ c.out = "failed" => nfails < MaxFails
    /\ SetRecorder(c.rec)
    /\ saved' = saved \o [i \in DOMAIN c.file |->
                    [name |-> c.file[i].name, track |-> c.file[i].track, by |-> by]]
    /\ nfails' = IF c.out = "failed" THEN nfails + 1 ELSE nfails
    /\ UNCHANGED <<nsessions, act>>

Closes(c, by) == ClosesWithin(c, by, MaxTrack)

-----------------------------------------------------------------------------
(* History kept for the properties (not state of the program) *)

NoAct == [msg |-> NoMsg, res |-> <<FALSE, FALSE, FALSE>>]
NoTrig == [at |-> NoTime, formed |-> {}]
NoHeard == [at |-> NoTime, sup |-> FALSE, cut |-> FALSE]

\* the window entries of the chord's notes at the moment the chord matched
Formed(r, msg, t, chord) ==
    LET r1 == Append(_clean_recent(r, t), <<t, msg.note>>)
    IN  {r1[i] : i \in {j \in DOMAIN r1 : r1[j][2] \in chord}}

\* the same without the window entries
TrigAt(out, t) ==
    IF out.res[1] THEN [trig EXCEPT !.split = [at |-> t, formed |-> {}]]
    ELSE IF out.res[2] THEN [trig EXCEPT !.pause = [at |-> t, formed |-> {}]]
    ELSE trig

TrigAfter(out, r, msg, t) ==
    IF out.res[1]
    THEN [trig EXCEPT !.split = [at |-> t, formed |-> Formed(r, msg, t, TRIGGER_SPLIT_NOTES)]]
    ELSE IF out.res[2]
    THEN [trig EXCEPT !.pause = [at |-> t, formed |-> Formed(r, msg, t, TRIGGER_PAUSE_NOTES)]]
    ELSE trig

-----------------------------------------------------------------------------
(* monitor_loop: the callback thread *)

\* Variant of on_msg: without the test of paused.is_set() before feed
on_msg_feeds_when_paused(res, is_paused) ==
    IF res[2] THEN (IF is_paused THEN "resume" ELSE "pause")
    ELSE IF res[1] THEN "split"
    ELSE IF res[3] THEN "suppress"
    ELSE "feed"

\* The branch on_msg takes on the result of detector.process
on_msg(res, is_paused) ==
    IF res[2] THEN (IF is_paused THEN "resume" ELSE "pause")
    ELSE IF res[1] THEN "split"
    ELSE IF res[3] THEN "suppress"
    ELSE IF is_paused THEN "paused"
    ELSE "feed"

\* on_msg up to its first call of the recorder.  The detector and the pause
\* flag are touched by this thread alone, so paused.clear() and the reads of
\* paused.is_set() are part of this step.
OnMsg(m) ==
    LET out == process(m, recent_on, suppressed_until, now)
        branch == on_msg(out.res, paused)
    IN  /\ cb_pc = "idle"
        /\ port /\ device
        /\ Len(out.recent_on) <= MaxRecent
        /\ recent_on' = out.recent_on
        /\ suppressed_until' = out.suppressed_until
        /\ cb_msg' = m
        /\ cb_pc' = CASE branch = "pause" -> "pause_split"
                      [] branch = "split" -> "split"
                      [] branch = "feed" -> "feed"
                      [] OTHER -> "idle"
        /\ paused' = IF branch = "resume" THEN FALSE ELSE paused
        /\ resumed' = IF branch = "resume" THEN TRUE ELSE resumed
        /\ trig' = TrigAfter(out, recent_on, m, now)
        /\ delivered' = IF branch = "feed" THEN Append(delivered, m) ELSE delivered
        /\ UNCHANGED act
        /\ UNCHANGED <<now, recorder, saved, wd_pc, main_pc, stop_flag, port, device,
                       heardlog, nsessions, nfails, ngaps>>

\* recorder.split_now() of the pause branch; when it raises, on_msg is left
\* before paused.set()
OnMsgPauseSplit(ok) ==
    LET c == split_now(Rec, now, ok)
    IN  /\ cb_pc = "pause_split"
        /\ Closes(c, "pause")
        /\ cb_pc' = IF c.out = "failed" THEN "idle" ELSE "pause_set"
        /\ UNCHANGED <<now, detector, paused, cb_msg, wd_pc, main_pc, stop_flag, port,
                       device, stroke, trig, delivered, heardlog, resumed, ngaps>>

\* paused.set()
OnMsgPauseSet ==
    /\ cb_pc = "pause_set"
    /\ paused' = TRUE
    /\ resumed' = FALSE
    /\ cb_pc' = "idle"
    /\ UNCHANGED act
    /\ UNCHANGED <<now, detector, recorder, saved, cb_msg, wd_pc, main_pc, stop_flag,
                   port, device, stroke, trig, delivered, heardlog, nsessions, nfails, ngaps>>

\* recorder.split_now() of the split branch
OnMsgSplit(ok) ==
    LET c == split_now(Rec, now, ok)
    IN  /\ cb_pc = "split"
        /\ Closes(c, "split")
        /\ cb_pc' = "idle"
        /\ UNCHANGED <<now, detector, paused, cb_msg, wd_pc, main_pc, stop_flag, port,
                       device, stroke, trig, delivered, heardlog, resumed, ngaps>>

\* recorder.feed(msg)
OnMsgFeed ==
    LET R == feed(Rec, cb_msg, now)
    IN  /\ cb_pc = "feed"
        /\ Len(R.track) <= MaxTrack
        /\ ~mid => nsessions < MaxSessions
        /\ SetRecorder(R)
        /\ nsessions' = IF mid THEN nsessions ELSE nsessions + 1
        /\ cb_pc' = "idle"
        /\ UNCHANGED act
        /\ UNCHANGED <<now, detector, saved, paused, cb_msg, wd_pc, main_pc, stop_flag,
                       port, device, stroke, trig, delivered, heardlog, resumed, nfails, ngaps>>

\* The messages the driver delivers in Spec: an ordinary
\* note, or the next note of a control chord struck from its lowest note up.
Ordinary == {NoteOn(60, 64)}
Strokes == {<<21, 23, 24>>, <<105, 107, 108>>}

Deliver ==
    \/ /\ stroke = <<>>
       /\ \E m \in Ordinary : OnMsg(m)
       /\ UNCHANGED stroke
    \/ /\ stroke = <<>>
       /\ \E c \in Strokes : OnMsg(NoteOn(Head(c), 64)) /\ stroke' = Tail(c)
    \/ /\ stroke # <<>>
       /\ OnMsg(NoteOn(Head(stroke), 64))
       /\ stroke' = Tail(stroke)

-----------------------------------------------------------------------------
(* monitor_loop: the idle_watchdog thread *)

\* while not stop_flag.is_set()
WatchdogCheck ==
    /\ wd_pc = "check"
    /\ wd_pc' = IF stop_flag THEN "done" ELSE "call"
    /\ UNCHANGED act
    /\ UNCHANGED <<now, detector, recorder, saved, paused, cb, main_pc, stop_flag, port,
                   device, stroke, trig, delivered, heardlog, resumed, nsessions, nfails, ngaps>>

\* recorder.stop_if_idle(IDLE_TIMEOUT_SECONDS) inside try/except, then
\* stop_flag.wait(0.5)
WatchdogCall(ok) ==
    LET c == stop_if_idle(Rec, IDLE_TIMEOUT_SECONDS, now, ok)
    IN  /\ wd_pc = "call"
        /\ Closes(c, "idle")
        /\ wd_pc' = "check"
        /\ UNCHANGED <<now, detector, paused, cb, main_pc, stop_flag, port,
                       device, stroke, trig, delivered, heardlog, resumed, ngaps>>

-----------------------------------------------------------------------------
(* monitor_loop: the main thread *)

\* top of the loop with no port: mido.open_input(port_name, callback=on_msg)
\* opens the device pick_input_port() found
MainOpen ==
    /\ main_pc = "loop" /\ ~stop_flag /\ ~port
    /\ device
    /\ port' = TRUE
    /\ main_pc' = "confirm"
    /\ UNCHANGED act
    /\ UNCHANGED <<now, detector, recorder, saved, paused, cb, wd_pc, stop_flag,
                   device, stroke, trig, delivered, heardlog, resumed, nsessions, nfails, ngaps>>

\* top of the loop with no port, and pick_input_port() finds no device or
\* mido.open_input raises: sleep and continue
MainScan(open_ok) ==
    /\ main_pc = "loop" /\ ~stop_flag /\ ~port
    /\ ~device \/ ~open_ok
    /\ UNCHANGED vars

\* "Confirm device still present": names is the empty set when the
\* enumeration raises (enum_ok false)
MainConfirm(enum_ok) ==
    LET present == enum_ok /\ device
    IN  /\ \/ main_pc = "confirm"
           \/ main_pc = "loop" /\ ~stop_flag /\ port
        /\ port' = (port /\ present)
        /\ main_pc' = IF present THEN "loop" ELSE "disconnect"
        /\ UNCHANGED act
        /\ UNCHANGED <<now, detector, recorder, saved, paused, cb, wd_pc, stop_flag,
                       device, stroke, trig, delivered, heardlog, resumed, nsessions, nfails, ngaps>>

\* recorder.force_close() of the disconnect branch: nothing catches what it
\* raises, so a failed write ends monitor_loop
MainDisconnect(ok) ==
    LET c == force_close(Rec, ok)
    IN  /\ main_pc = "disconnect"
        /\ Closes(c, "disconnect")
        /\ main_pc' = IF c.out = "failed" THEN "crashed" ELSE "loop"
        /\ UNCHANGED <<now, detector, paused, cb, wd_pc, stop_flag, port,
                       device, stroke, trig, delivered, heardlog, resumed, ngaps>>

\* "Clean shutdown": the loop ends, the port is closed
MainShutdown ==
    /\ main_pc = "loop" /\ stop_flag
    /\ port' = FALSE
    /\ main_pc' = "final"
    /\ UNCHANGED act
    /\ UNCHANGED <<now, detector, recorder, saved, paused, cb, wd_pc, stop_flag,
                   device, stroke, trig, delivered, heardlog, resumed, nsessions, nfails, ngaps>>

\* the last recorder.force_close()
MainFinal(ok) ==
    LET c == force_close(Rec, ok)
    IN  /\ main_pc = "final"
        /\ Closes(c, "shutdown")
        /\ main_pc' = IF c.out = "failed" THEN "crashed" ELSE "exited"
        /\ UNCHANGED <<now, detector, paused, cb, wd_pc, stop_flag, port,
                       device, stroke, trig, delivered, heardlog, resumed, ngaps>>

-----------------------------------------------------------------------------
(* The environment *)

\* handle_sig
Signal ==
    /\ ~stop_flag
    /\ stop_flag' = TRUE
    /\ UNCHANGED act
    /\ UNCHANGED <<now, detector, recorder, saved, paused, cb, wd_pc, main_pc, port,
                   device, stroke, trig, delivered, heardlog, resumed, nsessions, nfails, ngaps>>

\* the device is plugged in or pulled out
Plug ==
    /\ device' = ~device
    /\ UNCHANGED act
    /\ UNCHANGED <<now, detector, recorder, saved, paused, cb, wd_pc, main_pc, port,
                   stop_flag, stroke, trig, delivered, heardlog, resumed, nsessions, nfails, ngaps>>

\* the delays between two steps in Spec: the suppression grace and the idle
\* timeout, each also one quantum short; no delay inside a chord
Gaps == {SUPPRESS_AFTER_TRIGGER_SECONDS - 1, SUPPRESS_AFTER_TRIGGER_SECONDS,
         IDLE_TIMEOUT_SECONDS - 1, IDLE_TIMEOUT_SECONDS}

Advance(d) ==
    /\ ngaps < MaxGaps
    /\ stroke = <<>>
    /\ now' = now + d
    /\ ngaps' = ngaps + 1
    /\ UNCHANGED act
    /\ UNCHANGED <<detector, recorder, saved, paused, cb, wd_pc, main_pc, stop_flag,
                   port, device, stroke, trig, delivered, heardlog, resumed, nsessions, nfails>>

-----------------------------------------------------------------------------
(* The program *)

Init ==
    /\ now = 0
    /\ recent_on = <<>>
    /\ suppressed_until = <<>>
    /\ SetRecorderInit
    /\ saved = <<>>
    /\ paused = FALSE
    /\ stop_flag = FALSE
    /\ port = FALSE
    /\ device \in BOOLEAN
    /\ stroke = <<>>
    /\ cb_pc = "idle"
    /\ cb_msg = NoMsg
    /\ wd_pc = "check"
    /\ main_pc = "loop"
    /\ act = NoAct
    /\ trig = [split |-> NoTrig, pause |-> NoTrig]
    /\ delivered = <<>>
    /\ heard = [n \in TRIGGER_SPLIT_NOTES |-> NoHeard]
    /\ spaced = TRUE
    /\ splits = {}
    /\ seen = {}
    /\ last_on_at = NoTime
    /\ resumed = FALSE
    /\ nsessions = 0
    /\ nfails = 0
    /\ ngaps = 0

Next ==
    \/ Deliver
    \/ \E ok \in BOOLEAN : OnMsgPauseSplit(ok)
    \/ OnMsgPauseSet
    \/ \E ok \in BOOLEAN : OnMsgSplit(ok)
    \/ OnMsgFeed
    \/ WatchdogCheck
    \/ \E ok \in BOOLEAN : WatchdogCall(ok)
    \/ MainOpen
    \/ \E open_ok \in BOOLEAN : MainScan(open_ok)
    \/ \E enum_ok \in BOOLEAN : MainConfirm(enum_ok)
    \/ \E ok \in BOOLEAN : MainDisconnect(ok)
    \/ MainShutdown
    \/ \E ok \in BOOLEAN : MainFinal(ok)
    \/ Signal
    \/ Plug
    \/ \E d \in Gaps : Advance(d)

Spec == Init /\ [][Next]_vars

-----------------------------------------------------------------------------
(* The chord detector alone, on a clock of single quanta *)

\* the messages handed to ChordDetector.process in SpecDet: the split notes
\* in any order, and the pause chord struck from its lowest note up
DetInputs == {NoteOn(n, 64) : n \in TRIGGER_SPLIT_NOTES} \cup {NoteOn(105, 0)}
DetStrokes == {<<21, 23, 24>>}

\* the same in SpecSup
SupInputs ==
    {NoteOn(n, 64) : n \in TRIGGER_SPLIT_NOTES} \cup {NoteOn(105, 0), NoteOff(105)}

\* heard[n]: when the split note n last arrived as a positive note-on,
\* whether it was suppressed on arrival (sup), and whether a pause chord has
\* matched since (cut)
HeardAfter(m, res, t) ==
    LET h == IF res[2]
             THEN [n \in TRIGGER_SPLIT_NOTES |->
                      IF heard[n].at = NoTime THEN heard[n] ELSE [heard[n] EXCEPT !.cut = TRUE]]
             ELSE heard
    IN  IF m.type = "note_on" /\ m.velocity > 0 /\ m.note \in TRIGGER_SPLIT_NOTES
        THEN [h EXCEPT ![m.note] = [at |-> t, sup |-> res = <<FALSE, FALSE, TRUE>>,
                                    cut |-> FALSE]]
        ELSE h

DetProcess(m) ==
    LET out == process(m, recent_on, suppressed_until, now)
        on == m.type = "note_on" /\ m.velocity > 0
    IN  /\ Len(out.recent_on) <= MaxRecent
        /\ recent_on' = out.recent_on
        /\ suppressed_until' = out.suppressed_until
        /\ act' = [msg |-> m, res |-> out.res]
        /\ trig' = TrigAt(out, now)
        /\ UNCHANGED delivered
        /\ heard' = HeardAfter(m, out.res, now)
        /\ seen' = IF on /\ m.note \in TRIGGER_SPLIT_NOTES THEN seen \cup {m.note} ELSE seen
        /\ splits' = IF out.res[1] THEN splits \cup {now} ELSE splits
        /\ spaced' = (spaced /\ (on /\ last_on_at # NoTime
                                    => now - last_on_at >= CHORD_WINDOW_SECONDS))
        /\ last_on_at' = IF on THEN now ELSE last_on_at
        /\ UNCHANGED <<now, recorder, saved, paused, cb, wd_pc, main_pc, stop_flag,
                       port, device, resumed, nsessions, nfails, ngaps>>

DetDeliver ==
    \/ /\ stroke = <<>>
       /\ \E m \in DetInputs : DetProcess(m)
       /\ UNCHANGED stroke
    \/ /\ stroke = <<>>
       /\ \E c \in DetStrokes : DetProcess(NoteOn(Head(c), 64)) /\ stroke' = Tail(c)
    \/ /\ stroke # <<>>
       /\ DetProcess(NoteOn(Head(stroke), 64))
       /\ stroke' = Tail(stroke)

\* act is the last step when that was a call of process; heard, splits and
\* last_on_at are a history of the last chord window only
Fresh(t, t1) == IF t # NoTime /\ t1 - t <= CHORD_WINDOW_SECONDS THEN t ELSE NoTime

Forget(t1) ==
    /\ act' = NoAct
    /\ heard' = [n \in TRIGGER_SPLIT_NOTES |->
                    IF Fresh(heard[n].at, t1) = NoTime THEN NoHeard ELSE heard[n]]
    /\ splits' = {t \in splits : Fresh(t, t1) # NoTime}
    /\ last_on_at' = Fresh(last_on_at, t1)

\* one quantum passes (SpecDet)
Tick ==
    /\ now < MaxTime
    /\ stroke = <<>>
    /\ now' = now + 1
    /\ Forget(now')
    /\ UNCHANGED <<detector, recorder, saved, paused, cb, wd_pc, main_pc, stop_flag,
                   port, device, stroke, trig, delivered, spaced, seen, resumed, nsessions,
                   nfails, ngaps>>

\* one of the delays of Spec passes (SpecSup)
Wait(d) ==
    /\ ngaps < MaxGaps
    /\ now' = now + d
    /\ ngaps' = ngaps + 1
    /\ Forget(now')
    /\ UNCHANGED <<detector, recorder, saved, paused, cb, wd_pc, main_pc, stop_flag,
                   port, device, stroke, trig, delivered, spaced, seen, resumed, nsessions,
                   nfails>>

InitDet == Init /\ device

NextDet ==
    \/ DetDeliver
    \/ Tick

SpecDet == InitDet /\ [][NextDet]_vars

NextSup ==
    \/ \E m \in SupInputs : DetProcess(m) /\ UNCHANGED stroke
    \/ \E d \in Gaps : Wait(d)

SpecSup == InitDet /\ [][NextSup]_vars

-----------------------------------------------------------------------------
(* The recorder alone: its methods called in any order, one at a time (each
   runs under Recorder._lock), with tempo changes among the events *)

RecTempos == {333000}
RecInputs == {NoteOn(60, 64)} \cup {SetTempo(t) : t \in RecTempos}
RecGaps == {CHORD_WINDOW_SECONDS, IDLE_TIMEOUT_SECONDS}

\* what the recorder's methods never touch
others == <<detector, paused, cb, wd_pc, main_pc, stop_flag, port, device, stroke,
            trig, delivered, heardlog, resumed>>

RecFeed(m) ==
    LET R == feed(Rec, m, now)
    IN  /\ Len(R.track) <= MaxRecTrack
        /\ ~mid => nsessions < MaxSessions
        /\ SetRecorder(R)
        /\ nsessions' = IF mid THEN nsessions ELSE nsessions + 1
        /\ UNCHANGED <<now, saved, others, act, nfails, ngaps>>

RecStopIfIdle(ok) ==
    /\ ClosesWithin(stop_if_idle(Rec, IDLE_TIMEOUT_SECONDS, now, ok), "idle", MaxRecTrack)
    /\ UNCHANGED <<now, others, ngaps>>

RecSplitNow(ok) ==
    /\ ClosesWithin(split_now(Rec, now, ok), "split", MaxRecTrack)
    /\ UNCHANGED <<now, others, ngaps>>

RecForceClose(ok) ==
    /\ ClosesWithin(force_close(Rec, ok), "shutdown", MaxRecTrack)
    /\ UNCHANGED <<now, others, ngaps>>

RecAdvance(d) ==
    /\ ngaps < MaxRecGaps
    /\ now' = now + d
    /\ ngaps' = ngaps + 1
    /\ UNCHANGED <<recorder, saved, others, act, nsessions, nfails>>

NextRec ==
    \/ \E m \in RecInputs : RecFeed(m)
    \/ \E ok \in BOOLEAN : RecStopIfIdle(ok)
    \/ \E ok \in BOOLEAN : RecSplitNow(ok)
    \/ \E ok \in BOOLEAN : RecForceClose(ok)
    \/ \E d \in RecGaps : RecAdvance(d)

SpecRec == InitDet /\ [][NextRec]_vars

-----------------------------------------------------------------------------
(* Properties *)

Chords == {"split", "pause"}
ChordNotes(c) == IF c = "split" THEN TRIGGER_SPLIT_NOTES ELSE TRIGGER_PAUSE_NOTES

\* every event appended to a session so far, written out or not
Recorded ==
    LET tracks == {track} \cup {saved[i].track : i \in DOMAIN saved}
    IN  UNION {{tr[i] : i \in DOMAIN tr} : tr \in tracks}

\* C1: the notes of a control chord are never forwarded to the recorder:
\* neither the note-ons that formed the chord, nor a note-on or note-off of
\* one of its notes arriving after the trigger and before the suppression
\* expires.
C1_ChordNotesNeverRecorded ==
    \A c \in Chords : \A e \in Recorded :
        /\ ~(e.type = "note_on" /\ <<e.at, e.note>> \in trig[c].formed)
        /\ ~(/\ e.type \in {"note_on", "note_off"}
             /\ e.note \in ChordNotes(c)
             /\ trig[c].at # NoTime
             /\ e.at > trig[c].at
             /\ e.at < trig[c].at + SUPPRESS_AFTER_TRIGGER_SECONDS)

\* C2: while the pause state is set no session exists, and a message handled
\* while paused never reaches recorder.feed.
C2_PausedNoSession ==
    paused => (~mid /\ track = <<>> /\ filename = NoFile /\ cb_pc # "feed")

\* an ordinary note has been handled while paused, after a session had been
\* recorded and closed by the pause
C2_Witness ==
    /\ paused
    /\ cb_pc = "idle"
    /\ cb_msg = NoteOn(60, 64)
    /\ Len(saved) = 1
    /\ saved[1].by = "pause"

\* C6: when a session is open and no event has been accepted for the idle
\* timeout, the watchdog's call finalizes it with exactly the events recorded
\* so far, and the next event forwarded opens a second session of which it
\* is the first recorded event.
C6_IdleCloseThenNewSession ==
    [][/\ (wd_pc = "call" /\ wd_pc' = "check" /\ mid
              /\ now - last_event_real >= IDLE_TIMEOUT_SECONDS)
          => /\ ~mid'
             /\ saved' = Append(saved,
                    [name |-> filename,
                     track |-> Append(track, MetaEndOfTrack(
                                  _seconds_to_ticks(now - last_event_real, current_tempo))),
                     by |-> "idle"])
       /\ (cb_pc = "feed" /\ cb_pc' = "idle" /\ ~mid)
          => /\ mid'
             /\ nsessions' = nsessions + 1
             /\ track' = Header(DEFAULT_TEMPO_US_PER_BEAT) \o <<Event(cb_msg, 0, now)>>
      ]_vars

\* C7: no session is created while paused nor by the chord that resumes;
\* once resumed, feeding one ordinary event with no session open creates
\* exactly one session whose first recorded event is that event, at delta 0.
C7_ResumeThenFirstEvent ==
    [][/\ paused => (~mid' /\ nsessions' = nsessions /\ saved' = saved)
       /\ (cb_pc = "feed" /\ cb_pc' = "idle" /\ ~mid)
          => /\ ~paused
             /\ mid'
             /\ nsessions' = nsessions + 1
             /\ track' = Header(DEFAULT_TEMPO_US_PER_BEAT) \o <<Event(cb_msg, 0, now)>>
      ]_vars

\* paused, resumed by the chord, then one ordinary note fed: it is the only
\* event of the new session
C7_Witness ==
    /\ resumed
    /\ ~paused
    /\ mid
    /\ cb_pc = "idle"
    /\ track = Header(DEFAULT_TEMPO_US_PER_BEAT) \o <<Event(NoteOn(60, 64), 0, now)>>
    /\ Len(saved) = 1
    /\ saved[1].by = "pause"

\* C8: a close whose file write fails still resets the session state (no
\* open session, no pending filename, default tempo).
C8_FailedWriteStillResets ==
    [][nfails' > nfails
          => /\ ~mid'
             /\ track' = <<>>
             /\ last_event_real' = NoTime
             /\ filename' = NoFile
             /\ current_tempo' = DEFAULT_TEMPO_US_PER_BEAT
      ]_vars

\* C9: no two sessions are ever assigned the same output path.
C9_DistinctPaths ==
    /\ \A i, j \in DOMAIN saved : i # j => saved[i].name # saved[j].name
    /\ mid => \A i \in DOMAIN saved : saved[i].name # filename

\* a step that is a call of split_now, stop_if_idle or force_close
CloseCall ==
    \/ cb_pc \in {"split", "pause_split"} /\ cb_pc' # cb_pc
    \/ wd_pc = "call" /\ wd_pc' # wd_pc
    \/ main_pc \in {"disconnect", "final"} /\ main_pc' # main_pc

\* C10: a close call made when no session is open changes nothing, writes no
\* file and raises nothing.
C10_CloseWithoutSessionIsNoop ==
    [][(CloseCall /\ ~mid)
          => /\ UNCHANGED <<recorder, saved, nfails>>
             /\ main_pc' = "crashed" => main_pc = "crashed"
      ]_vars

\* the force_close of the disconnect branch wrote the only session; the
\* force_close of the shutdown came after it and wrote nothing
C10_Witness ==
    /\ main_pc = "exited"
    /\ nsessions = 1
    /\ ~mid
    /\ Len(saved) = 1
    /\ saved[1].by = "disconnect"
    /\ nfails = 0

-----------------------------------------------------------------------------
(* Properties of the chord detector (SpecDet, SpecSup) *)

HeardAll == \A n \in TRIGGER_SPLIT_NOTES : heard[n].at # NoTime
HeardTimes == {heard[n].at : n \in TRIGGER_SPLIT_NOTES}
HeardFirst == CHOOSE t \in HeardTimes : \A u \in HeardTimes : t <= u
HeardLast == CHOOSE t \in HeardTimes : \A u \in HeardTimes : u <= t

\* the three split notes have arrived as positive note-ons within the chord
\* window of each other, none of them dropped by the suppression of an
\* earlier trigger
SplitChordArrived ==
    /\ HeardAll
    /\ HeardLast - HeardFirst <= CHORD_WINDOW_SECONDS
    /\ \A n \in TRIGGER_SPLIT_NOTES : ~heard[n].sup

SplitOnceSinceFirst ==
    Cardinality({t \in splits : HeardFirst <= t /\ t <= HeardLast}) = 1

\* C3 as stated: whenever the three split notes have arrived as positive
\* note-ons within the window of each other, in any order and with anything
\* interleaved, process has returned split exactly once for them.
C3_SplitExactlyOnce_AsStated ==
    SplitChordArrived => SplitOnceSinceFirst

\* C3: the same, provided no pause chord has matched since the first of the
\* three arrived.
C3_SplitExactlyOnce ==
    (SplitChordArrived /\ \A n \in TRIGGER_SPLIT_NOTES : ~heard[n].cut)
        => SplitOnceSinceFirst

\* the three arrive from the highest down, the last exactly a window after
\* the first, and that last call returns split
C3_Witness ==
    /\ SplitChordArrived
    /\ \A n \in TRIGGER_SPLIT_NOTES : ~heard[n].cut
    /\ heard[108].at = HeardFirst
    /\ heard[105].at = HeardLast
    /\ HeardLast - HeardFirst = CHORD_WINDOW_SECONDS
    /\ act.msg = NoteOn(105, 64)
    /\ act.res = <<TRUE, FALSE, TRUE>>

\* C4: when every two consecutive positive note-ons are at least a chord
\* window apart, process never returns split.
C4_SpacedNeverSplits ==
    spaced => (~act.res[1] /\ splits = {})

\* the three split notes have arrived, each exactly a window after the one
\* before
C4_Witness ==
    /\ spaced
    /\ seen = TRIGGER_SPLIT_NOTES
    /\ now = 2 * CHORD_WINDOW_SECONDS
    /\ act.msg.type = "note_on" /\ act.msg.velocity > 0
    /\ recent_on # <<>> /\ recent_on[1][1] = CHORD_WINDOW_SECONDS

\* C5: after a chord triggers at time T, a note-on or note-off of one of its
\* notes processed before T + 2 s is reported suppressed, leaves the window
\* as it was and triggers nothing; processed at T + 2 s or later it is no
\* longer reported as suppressed by that trigger.
C5_SuppressedForTwoSeconds ==
    [][now' = now =>
          \A c \in Chords :
              (/\ trig[c].at # NoTime
               /\ act'.msg.type \in {"note_on", "note_off"}
               /\ act'.msg.note \in ChordNotes(c))
              => IF now < trig[c].at + SUPPRESS_AFTER_TRIGGER_SECONDS
                 THEN /\ act'.res = <<FALSE, FALSE, TRUE>>
                      /\ recent_on' = recent_on
                      /\ trig' = trig
                 ELSE act'.res # <<FALSE, FALSE, TRUE>>
      ]_vars

\* a note-off of a split note is suppressed one quantum before the expiry
C5_Witness ==
    /\ trig.split.at # NoTime
    /\ now = trig.split.at + SUPPRESS_AFTER_TRIGGER_SECONDS - 1
    /\ act.msg = NoteOff(105)
    /\ act.res = <<FALSE, FALSE, TRUE>>

-----------------------------------------------------------------------------
(* Properties of the orchestration (Spec) *)

\* C11: after the stop signal the connection is closed before the last
\* force_close runs, and when monitor_loop has returned no session is open.
C11_ShutdownLeavesNoSession ==
    /\ main_pc = "final" => ~port
    /\ main_pc = "exited" => (~port /\ ~mid)

\* C12: an exception raised inside one iteration of the watchdog loop or of
\* the presence loop never ends that loop: the watchdog goes on to its next
\* test of the stop flag, the presence loop to its next iteration.
C12_LoopsSurviveExceptions ==
    [][/\ wd_pc = "call" => wd_pc' \in {"call", "check"}
       /\ main_pc \in {"loop", "confirm", "disconnect"} => main_pc' # "crashed"
      ]_vars

\* C16: when the presence loop finds the bound device gone it clears the
\* connection, and after its disconnect step no session is open, no
\* connection is recorded and the loop continues.
C16_DisconnectClosesEverything ==
    [][/\ (main_pc' = "disconnect" /\ main_pc # "disconnect") => ~port'
       /\ (main_pc = "disconnect" /\ main_pc' # "disconnect")
          => (~mid' /\ ~port' /\ main_pc' = "loop")
      ]_vars

\* C18: the pause flag changes only in on_msg on a matched pause chord, and
\* every matched pause chord toggles it (so two in a row restore it).
C18_PauseFlagOnlyByPauseChord ==
    [][/\ paused' # paused
          => \/ cb_pc = "pause_set"
             \/ cb_pc = "idle" /\ trig'.pause # trig.pause
       /\ (cb_pc = "pause_split" /\ cb_pc' # cb_pc) => cb_pc' = "pause_set"
       /\ (cb_pc = "pause_set" /\ cb_pc' # cb_pc) => paused' # paused
       /\ (cb_pc = "idle" /\ trig'.pause # trig.pause /\ paused) => ~paused'
      ]_vars

\* the tracks of all sessions so far, written out or not
Tracks == {track} \cup {saved[i].track : i \in DOMAIN saved}

\* C19: every track, in memory and in every file written, holds at most one
\* end_of_track event, and it is the last entry.
C19_EndOfTrackOnceAndLast ==
    \A tr \in Tracks : \A i \in DOMAIN tr :
        tr[i].type = "end_of_track" => i = Len(tr)

\* the device events of a track, as the messages they were made from
AsMsg(e) == [type |-> e.type, note |-> e.note, velocity |-> e.velocity, tempo |-> e.tempo]

RECURSIVE DeviceMsgs(_)
DeviceMsgs(tr) ==
    IF tr = <<>> THEN <<>>
    ELSE IF Head(tr).at = NoTime THEN DeviceMsgs(Tail(tr))
    ELSE <<AsMsg(Head(tr))>> \o DeviceMsgs(Tail(tr))

RECURSIVE SavedMsgs(_)
SavedMsgs(files) ==
    IF files = <<>> THEN <<>>
    ELSE DeviceMsgs(Head(files).track) \o SavedMsgs(Tail(files))

\* C13: the events recorded, session after session, then the event on_msg
\* is about to feed, are exactly the messages the driver delivered for
\* recording, in the order of delivery: none lost, none twice, none moved.
C13_RecordedInDeliveryOrder ==
    SavedMsgs(saved) \o DeviceMsgs(track)
        \o (IF cb_pc = "feed" THEN <<cb_msg>> ELSE <<>>) = delivered

\* three events recorded over two sessions, the first closed by the watchdog
C13_Witness ==
    /\ Len(delivered) = 3
    /\ cb_pc = "idle"
    /\ mid
    /\ Len(saved) = 1
    /\ saved[1].by = "idle"
    /\ Len(saved[1].track) = 5

\* C17: a watchdog call closes the session only when the time since its last
\* recorded event has reached the timeout (boundary included), with that
\* time as the trailing delta; with less elapsed, or no session, it changes
\* nothing.
C17_IdleCloseOnlyAtTimeout ==
    [][(wd_pc = "call" /\ wd_pc' = "check")
          => IF mid /\ now - last_event_real >= IDLE_TIMEOUT_SECONDS
             THEN \/ nfails' = nfails + 1 /\ saved' = saved
                  \/ /\ nfails' = nfails
                     /\ ~mid'
                     /\ saved' = Append(saved,
                            [name |-> filename,
                             track |-> Append(track, MetaEndOfTrack(
                                 _seconds_to_ticks(now - last_event_real, current_tempo))),
                             by |-> "idle"])
             ELSE UNCHANGED <<recorder, saved, nfails>>
      ]_vars

\* the watchdog closed a session exactly at the timeout
C17_Witness ==
    /\ Len(saved) = 1
    /\ saved[1].by = "idle"
    /\ now = IDLE_TIMEOUT_SECONDS
    /\ saved[1].track[Len(saved[1].track)]
           = MetaEndOfTrack(_seconds_to_ticks(IDLE_TIMEOUT_SECONDS, DEFAULT_TEMPO_US_PER_BEAT))

-----------------------------------------------------------------------------
(* Properties of the recorder (SpecRec) *)

Largest(S) == CHOOSE x \in S : \A y \in S : y <= x
Abs(x) == IF x < 0 THEN -x ELSE x

\* the tempo in effect for entry i of a track: that of the last set_tempo
\* before it (the header's at first)
TempoAt(tr, i) == tr[Largest({j \in 1..(i - 1) : tr[j].type = "set_tempo"})].tempo

\* the real delay of the device event at entry i: since the device event
\* before it, or since the start of the session
DelayAt(tr, i) ==
    LET before == {j \in 1..(i - 1) : tr[j].at # NoTime}
    IN  IF before = {} THEN 0 ELSE tr[i].at - tr[Largest(before)].at

\* C14: a set_tempo event fed to a session gets its delta at the tempo in
\* effect before it; every delta appended afterwards, the end_of_track's
\* included, is computed at the new tempo; nothing appended before changes.
C14_TempoAppliesGoingForward ==
    [][/\ mid => current_tempo = TempoAt(track, Len(track) + 1)
       /\ (mid' /\ Len(track') > Len(track) /\ track'[Len(track')].at # NoTime)
          => LET e == track'[Len(track')]
                 base == IF mid THEN track ELSE Header(DEFAULT_TEMPO_US_PER_BEAT)
                 gap == IF mid THEN now - last_event_real ELSE 0
             IN  /\ track' = Append(base, e)
                 /\ e.time = _seconds_to_ticks(gap, current_tempo)
                 /\ current_tempo' = IF e.type = "set_tempo" THEN e.tempo
                                     ELSE current_tempo
       /\ Len(saved') > Len(saved)
          => LET f == saved'[Len(saved')]
                 ticks == IF f.by = "shutdown" THEN 0
                          ELSE _seconds_to_ticks(now - last_event_real, current_tempo)
             IN  /\ saved' = Append(saved, f)
                 /\ f.track = Append(track, MetaEndOfTrack(ticks))
      ]_vars

\* a note, then 150 ms later a set_tempo whose delta is at the old tempo,
\* then 150 ms later a note whose delta is at the new tempo
C14_Witness ==
    /\ mid
    /\ Len(track) = 5
    /\ track[4].type = "set_tempo" /\ track[4].tempo = 333000
    /\ track[4].time = _seconds_to_ticks(CHORD_WINDOW_SECONDS, DEFAULT_TEMPO_US_PER_BEAT)
    /\ track[5].type = "note_on"
    /\ track[5].time = _seconds_to_ticks(CHORD_WINDOW_SECONDS, 333000)
    /\ track[5].time # track[4].time

\* C15: every recorded delta is a natural number; converted back to time at
\* the tempo in effect (480 ticks per beat) it is within one tick of the
\* real delay; a negative elapsed time gives delta 0.
C15_DeltaRoundTrip ==
    /\ \A tr \in Tracks : \A i \in DOMAIN tr :
          /\ tr[i].time \in Nat
          /\ tr[i].at # NoTime
             => LET tick == TempoAt(tr, i) \div 1000
                    real == DelayAt(tr, i) * (UnitMicros \div 1000) * TICKS_PER_BEAT
                IN  Abs(tr[i].time * tick - real) <= tick
    /\ \A q \in 1..MaxBack : _seconds_to_ticks(-q, current_tempo) = 0

\* an event recorded 150 ms after a tempo change to 333000: 216 ticks stand
\* for 216.216 ticks
C15_Witness ==
    /\ mid
    /\ Len(track) = 5
    /\ track[4].type = "set_tempo" /\ track[4].tempo = 333000
    /\ track[5].at - track[4].at = CHORD_WINDOW_SECONDS
    /\ track[5].time = 216

\* C20: the session object, its track, the time of the last event and the
\* filename are all set or all unset; with no session the tempo is the
\* default; time_since_last_event is None exactly when no session is open.
C20_FieldsConsistent ==
    /\ mid <=> track # <<>>
    /\ mid <=> last_event_real # NoTime
    /\ mid <=> filename # NoFile
    /\ ~mid => current_tempo = DEFAULT_TEMPO_US_PER_BEAT
    /\ time_since_last_event(Rec, now) = NoTime <=> ~mid

\* a session whose tempo was changed has been closed, after a failed write
C20_Witness ==
    /\ ~mid
    /\ nfails = 1
    /\ Len(saved) = 1
    /\ \E i \in DOMAIN saved[1].track :
          saved[1].track[i].type = "set_tempo" /\ saved[1].track[i].at # NoTime
    /\ current_tempo = DEFAULT_TEMPO_US_PER_BEAT

=============================================================================
